---------------------------- MODULE Spec2Model ----------------------------
(***************************************************************************)
(* FluxFlow backend (src/main.py): the two code-execution endpoints.       *)
(*   /run-code  run_hybrid_code : JDoodle first, Piston as the fallback    *)
(*   /run       run_code        : local executors for python, c and cpp    *)
(* One behaviour handles one request, from its arrival to its response.    *)
(*                                                                         *)
(* A text (str) is a sequence of pieces [src, len]: the first len          *)
(* characters of the stream named src.  The empty string is << >>.         *)
(* A JSON object is a record holding exactly the keys that are present.    *)
(***************************************************************************)
EXTENDS Integers, Sequences, FiniteSets, TLC

VARIABLES
    JDOODLE_ID,      \* main.py:221, read once from the environment
    JDOODLE_SECRET,  \* main.py:222
    pc,              \* where the handler of the request stands
    request,         \* [endpoint, data]: the request being handled
    calls,           \* the outbound backend calls made so far, in order
    received,        \* what each backend call gave back, in order
    program,         \* what really happened to the executed program
    disk,            \* the scratch files and directories on disk
    procs,           \* the child processes alive
    spawned,         \* every child process started so far, in order
    pending,         \* the response computed, not yet sent (cleanup first)
    response,        \* [status, body]: the response sent
    workers,         \* concurrent /run requests: the state of each worker
    tmp              \* concurrent /run requests: the temporary directory they share

vars == <<JDOODLE_ID, JDOODLE_SECRET, pc, request, calls, received, program,
          disk, procs, spawned, pending, response, workers, tmp>>

-----------------------------------------------------------------------------
(* Bounds of the model *)

\* the longest stream a backend or a child process produces, in pieces
MaxPieces == 1

\* the /run requests handled at the same time
NumWorkers == 2

\* the names tempfile has to draw from, beyond one for each worker
SpareNames == 1

-----------------------------------------------------------------------------
(* Program constants *)

MAX_EXECUTION_TIME == 5
MAX_OUTPUT_SIZE == 50000
MAX_CODE_LENGTH == 10000

-----------------------------------------------------------------------------
(* Texts *)

Str(src, n) == IF n = 0 THEN << >> ELSE << [src |-> src, len |-> n] >>

RECURSIVE Length(_)
Length(t) == IF t = << >> THEN 0 ELSE Head(t).len + Length(Tail(t))

\* Python's t[:n]
RECURSIVE Slice(_, _)
Slice(t, n) ==
    IF t = << >> \/ n <= 0 THEN << >>
    ELSE IF Head(t).len >= n THEN << [src |-> Head(t).src, len |-> n] >>
    ELSE << Head(t) >> \o Slice(Tail(t), n - Head(t).len)

\* Python's  marker in t
Contains(t, marker) == \E i \in DOMAIN t : t[i].src = marker

\* Python's dict.get(key, default)
Get(d, key, default) == IF key \in DOMAIN d THEN d[key] ELSE default

\* Python's str.lower() on the language identifiers of the model
Lower(s) ==
    CASE s = "Python" -> "python"
      [] s = "CPP"    -> "cpp"
      [] OTHER        -> s

QuotaMarker == "Daily Limit Reached"

\* a literal of the source, of n characters
Lit(s, n) == << [src |-> s, len |-> n] >>

NoOutput == Lit("(No output)", 11)

\* str(e) of a caught exception
ExceptionText == << [src |-> "exception", len |-> 1] >>

\* the streams whose content comes from each backend
PrimarySrcs == {"jdoodle.output", QuotaMarker}
SecondarySrcs == {"piston.stdout", "piston.stderr", "piston.message"}

\* every text of at most n pieces, each piece one character of a stream of srcs
RECURSIVE TextsOver(_, _)
TextsOver(srcs, n) ==
    IF n = 0 THEN {<< >>}
    ELSE LET shorter == TextsOver(srcs, n - 1)
         IN  shorter \cup {Append(t, [src |-> s, len |-> 1]) : t \in shorter, s \in srcs}

NoResponse == [status |-> 0, body |-> << >>]

\* program: how the program of the request ended, and its exit code if it exited
NotRun == [outcome |-> "none", exit |-> 0]

-----------------------------------------------------------------------------
(* /run-code : run_hybrid_code *)

\* the JSON bodies of a /run-code request; << >> is a missing or empty body
RunCodeBodies ==
    {<< >>}
    \cup {[script |-> Str("request.script", n), language |-> l] :
             n \in {0, 1}, l \in {"python", "CPP", "js", "ruby"}}
    \cup {[script |-> Str("request.script", 1)]}
    \cup {[language |-> "python"]}
    \cup {[script |-> Str("request.script", 1), language |-> "cpp",
           stdin |-> Str("request.stdin", 1)]}

jdoodle_map ==
    [c |-> "c", cpp |-> "cpp17", python |-> "python3", java |-> "java",
     js |-> "nodejs", csharp |-> "csharp", go |-> "go", kotlin |-> "kotlin",
     swift |-> "swift", dart |-> "dart"]

piston_map ==
    [c |-> "c", cpp |-> "c++", python |-> "python", java |-> "java",
     js |-> "javascript", csharp |-> "csharp", go |-> "go", kotlin |-> "kotlin",
     swift |-> "swift", dart |-> "dart"]

script == Get(request.data, "script", << >>)
language == Lower(Get(request.data, "language", "python"))
stdin == Get(request.data, "stdin", << >>)

\* jdoodle_lang that passes an unmapped identifier on unchanged
jdoodle_lang_unchanged == Get(jdoodle_map, language, language)

\* main.py:267
jdoodle_lang == Get(jdoodle_map, language, "python3")

\* main.py:316
piston_lang == Get(piston_map, language, "python")

\* What the call to JDoodle can give: requests.post raises; response.json()
\* raises; or a JSON object, with or without "output", the output short or
\* longer than MAX_OUTPUT_SIZE.  exit is the exit code of the program JDoodle
\* ran, which its response does not carry.
PrimaryOutcomes ==
    {[kind |-> "raise"]}
    \cup {[kind |-> "badjson", status_code |-> st] : st \in {200, 429}}
    \cup {[kind |-> "json", status_code |-> st, result |-> [error |-> Lit("jdoodle.error", 1)],
           exit |-> 0] : st \in {200, 429}}
    \cup {[kind |-> "json", status_code |-> st, result |-> [output |-> out],
           exit |-> ex] :
             st \in {200, 429}, out \in TextsOver(PrimarySrcs, MaxPieces), ex \in {0, 1}}
    \cup {[kind |-> "json", status_code |-> 200,
           result |-> [output |-> Str("jdoodle.output", MAX_OUTPUT_SIZE + 1)],
           exit |-> 0]}

\* PrimaryReturns without the check for the quota marker
PrimaryReturnsIgnoringQuota(o) ==
    /\ o.kind = "json"
    /\ o.status_code = 200
    /\ "output" \in DOMAIN o.result

\* PrimaryReturns without the check of the HTTP status
PrimaryReturnsAnyStatus(o) ==
    /\ o.kind = "json"
    /\ "output" \in DOMAIN o.result
    /\ ~Contains(o.result.output, QuotaMarker)

\* main.py:285-288: the response is the final answer
PrimaryReturns(o) ==
    /\ o.kind = "json"
    /\ o.status_code = 200
    /\ "output" \in DOMAIN o.result
    /\ ~Contains(o.result.output, QuotaMarker)

\* main.py:289-295
JDoodleResult(result) ==
    LET output == Get(result, "output", << >>)
    IN  [success |-> TRUE,
         output |-> IF output # << >> THEN output ELSE NoOutput,
         error |-> << >>,
         source |-> "JDoodle",
         language |-> language]

\* UsePrimary that looks at the client id alone
UsePrimaryIdOnly == JDOODLE_ID # ""

\* main.py:252
UsePrimary == JDOODLE_ID # "" /\ JDOODLE_SECRET # ""

Respond(status, body) ==
    /\ response' = [status |-> status, body |-> body]
    /\ pc' = "done"

\* A /run-code request arrives.
ReceiveRunCode ==
    /\ pc = "idle"
    /\ \E data \in RunCodeBodies :
          request' = [endpoint |-> "/run-code", data |-> data]
    /\ pc' = "run_hybrid_code"
    /\ UNCHANGED <<workers, tmp, JDOODLE_ID, JDOODLE_SECRET, calls, received, program,
                   disk, procs, spawned, pending, response>>

\* RunHybridCode without the check of the script
RunHybridCodeNoScriptCheck ==
    /\ pc = "run_hybrid_code"
    /\ IF DOMAIN request.data = {}
         THEN Respond(400, [error |-> Lit("No JSON body provided", 21), success |-> FALSE])
       ELSE /\ pc' = IF UsePrimary THEN "TryPrimary" ELSE "TrySecondary"
            /\ UNCHANGED response
    /\ UNCHANGED <<workers, tmp, JDOODLE_ID, JDOODLE_SECRET, request, calls, received, program,
                   disk, procs, spawned, pending>>

\* main.py:240-252: validation, then the choice of the first backend
RunHybridCode ==
    /\ pc = "run_hybrid_code"
    /\ IF DOMAIN request.data = {}
         THEN Respond(400, [error |-> Lit("No JSON body provided", 21), success |-> FALSE])
       ELSE IF script = << >>
         THEN Respond(400, [error |-> Lit("No script provided", 18), success |-> FALSE])
       ELSE /\ pc' = IF UsePrimary THEN "TryPrimary" ELSE "TrySecondary"
            /\ UNCHANGED response
    /\ UNCHANGED <<workers, tmp, JDOODLE_ID, JDOODLE_SECRET, request, calls, received, program,
                   disk, procs, spawned, pending>>

\* main.py:253-299: the attempt on JDoodle
TryPrimary ==
    /\ pc = "TryPrimary"
    /\ \E o \in PrimaryOutcomes :
          /\ calls' = Append(calls, [backend |-> "JDoodle",
                                     language |-> jdoodle_lang,
                                     script |-> script, stdin |-> stdin])
          /\ received' = Append(received, [backend |-> "JDoodle", outcome |-> o])
          /\ IF PrimaryReturns(o)
               THEN /\ Respond(200, JDoodleResult(o.result))
                    /\ program' = [outcome |-> "exited", exit |-> o.exit]
               ELSE /\ pc' = "TrySecondary"
                    /\ UNCHANGED <<response, program>>
    /\ UNCHANGED <<workers, tmp, JDOODLE_ID, JDOODLE_SECRET, request, disk, procs, spawned, pending>>

\* What the call to Piston can give: requests.post raises requests.Timeout or
\* another exception; response.json() raises; or a JSON object: with "run"
\* (complete, or lacking its streams), or without "run" (with or without
\* "message").
SecondaryOutcomes ==
    {[kind |-> "timeout"], [kind |-> "raise"], [kind |-> "badjson"]}
    \cup {[kind |-> "json", result |-> [message |-> Lit("piston.message", 1)]],
          [kind |-> "json", result |-> [language |-> "python"]],
          [kind |-> "json", result |-> [run |-> [code |-> 1]]]}
    \cup {[kind |-> "json",
           result |-> [run |-> [stdout |-> out, stderr |-> err, code |-> c]]] :
             out \in TextsOver({"piston.stdout"}, MaxPieces),
             err \in TextsOver({"piston.stderr"}, MaxPieces),
             c \in {0, 1}}
    \cup {[kind |-> "json",
           result |-> [run |-> [stdout |-> Str("piston.stdout", MAX_OUTPUT_SIZE + 1),
                                stderr |-> << >>, code |-> 0]]]}

\* main.py:330-334: response.json() raises, or result["run"]["stdout"] or
\* result["run"]["stderr"] is a KeyError
SecondaryRaises(o) ==
    \/ o.kind \in {"raise", "badjson"}
    \/ /\ o.kind = "json"
       /\ "run" \in DOMAIN o.result
       /\ ~ {"stdout", "stderr"} \subseteq DOMAIN o.result.run

\* PistonResult with the primary's output kept in front of the secondary's
PistonResultMerged(result) ==
    LET prior == IF received # << >> /\ received[1].outcome.kind = "json"
                   THEN Get(received[1].outcome.result, "output", << >>)
                   ELSE << >>
        exit_code == Get(result.run, "code", 0)
    IN  IF "run" \in DOMAIN result
          THEN [success |-> exit_code = 0,
                output |-> prior \o result.run.stdout \o result.run.stderr,
                error |-> IF exit_code # 0 THEN result.run.stderr ELSE << >>,
                source |-> "Piston",
                language |-> language]
          ELSE [success |-> FALSE,
                output |-> << >>,
                error |-> Lit("Piston Error: ", 14)
                            \o Get(result, "message", Lit("Unknown error from Piston", 25)),
                source |-> "Piston",
                language |-> language]

\* main.py:332-350
PistonResult(result) ==
    IF "run" \in DOMAIN result
      THEN LET output == result.run.stdout \o result.run.stderr
               exit_code == Get(result.run, "code", 0)
           IN  [success |-> exit_code = 0,
                output |-> IF output # << >> THEN output ELSE NoOutput,
                error |-> IF exit_code # 0 THEN result.run.stderr ELSE << >>,
                source |-> "Piston",
                language |-> language]
      ELSE LET error_msg == Get(result, "message", Lit("Unknown error from Piston", 25))
           IN  [success |-> FALSE,
                output |-> << >>,
                error |-> Lit("Piston Error: ", 14) \o error_msg,
                source |-> "Piston",
                language |-> language]

\* SecondaryFailure without the handler of requests.Timeout
SecondaryFailureNoTimeout(o) ==
    [status |-> 500,
     body |-> [error |-> Lit("Server error: ", 14) \o ExceptionText, success |-> FALSE]]

\* main.py:352-355
SecondaryFailure(o) ==
    IF o.kind = "timeout"
      THEN [status |-> 408,
            body |-> [error |-> Lit("Execution timeout", 17), success |-> FALSE]]
      ELSE [status |-> 500,
            body |-> [error |-> Lit("Server error: ", 14) \o ExceptionText,
                      success |-> FALSE]]

\* main.py:301-355: the attempt on Piston
TrySecondary ==
    /\ pc = "TrySecondary"
    /\ \E o \in SecondaryOutcomes :
          /\ calls' = Append(calls, [backend |-> "Piston",
                                     language |-> piston_lang,
                                     script |-> script, stdin |-> stdin])
          /\ received' = Append(received, [backend |-> "Piston", outcome |-> o])
          /\ IF o.kind = "timeout" \/ SecondaryRaises(o)
               THEN /\ response' = SecondaryFailure(o)
                    /\ UNCHANGED program
               ELSE /\ response' = [status |-> 200, body |-> PistonResult(o.result)]
                    /\ program' = IF "run" \in DOMAIN o.result
                                    THEN [outcome |-> "exited", exit |-> o.result.run.code]
                                    ELSE program
          /\ pc' = "done"
    /\ UNCHANGED <<workers, tmp, JDOODLE_ID, JDOODLE_SECRET, request, disk, procs, spawned, pending>>

-----------------------------------------------------------------------------
(* /run : run_code and the local executors *)

Surrogate == "request.code.surrogate"

\* the JSON bodies of a /run request; << >> is a missing or empty body.  A
\* code holding a lone surrogate (JSON "\ud800") cannot be encoded as UTF-8.
RunBodies ==
    {<< >>}
    \cup {[code |-> Str("request.code", n), language |-> l] :
             n \in {0, 1, MAX_CODE_LENGTH, MAX_CODE_LENGTH + 1},
             l \in {"python", "Python", "c", "cpp", "java"}}
    \cup {[code |-> Str(Surrogate, 1), language |-> l] : l \in {"python", "c", "cpp"}}
    \cup {[code |-> Str("request.code", 1)]}
    \cup {[language |-> "c"]}
    \cup {[code |-> Str("request.code", 1), language |-> "python",
           input |-> Str("request.input", 1)]}

code == Get(request.data, "code", << >>)
stdin_input == Get(request.data, "input", << >>)

\* the scratch paths of the request
temp_file == "tmp.py"
tmpdir == "tmpdir"
source == "tmpdir/program.src"
binary == "tmpdir/program"

\* what a child process can end with
ReturnCodes == {0, 1, -1}
StreamLengths == {0, 1, MAX_OUTPUT_SIZE + 1}

InternalError ==
    [status |-> 500,
     body |-> [success |-> FALSE, output |-> << >>, error |-> ExceptionText,
               exit_code |-> -1]]

\* a timeout reported as the runtime error of a killed process
TimeoutAsRuntimeError ==
    [status |-> 200,
     body |-> [success |-> FALSE, output |-> << >>, error |-> << >>,
               exit_code |-> -9]]

\* main.py:432-438, 494-500, 556-562
TimeoutError ==
    [status |-> 408,
     body |-> [success |-> FALSE, output |-> << >>,
               error |-> << [src |-> "Execution timeout (%ss limit exceeded)",
                             len |-> 36, arg |-> MAX_EXECUTION_TIME] >>,
               exit_code |-> -1]]

\* subprocess.run starts a child.  No call passes preexec_fn, so set_limits
\* (main.py:40-45) runs in no child.
Spawn(cmd) ==
    /\ procs' = procs \cup {cmd}
    /\ spawned' = Append(spawned, [cmd |-> cmd, end |-> "running", returncode |-> 0,
                                   preexec_fn |-> "none"])

\* the child started last ends: it exits with rc, or subprocess.run kills and
\* reaps it on TimeoutExpired.  subprocess.run kills the child it started and
\* no other process.
Ended(how, rc) ==
    /\ procs' = procs \ {spawned[Len(spawned)].cmd}
    /\ spawned' = [spawned EXCEPT ![Len(spawned)] =
                      [cmd |-> @.cmd, end |-> how, returncode |-> rc,
                       preexec_fn |-> @.preexec_fn]]

\* a process started by the untrusted program itself (fork, subprocess.Popen)
Descendant == "descendant"

\* The interpreter or the binary, while it runs the user's code, starts a
\* process of its own.
UntrustedForks ==
    /\ pc \in {"py_wait", "cc_running"}
    /\ Descendant \notin procs
    /\ procs' = procs \cup {Descendant}
    /\ UNCHANGED <<workers, tmp, JDOODLE_ID, JDOODLE_SECRET, pc, request, calls, received, program,
                   disk, spawned, pending, response>>

\* That process ends by itself, at any time.
DescendantExits ==
    /\ Descendant \in procs
    /\ procs' = procs \ {Descendant}
    /\ UNCHANGED <<workers, tmp, JDOODLE_ID, JDOODLE_SECRET, pc, request, calls, received, program,
                   disk, spawned, pending, response>>

\* A /run request arrives.
ReceiveRun ==
    /\ pc = "idle"
    /\ \E data \in RunBodies :
          request' = [endpoint |-> "/run", data |-> data]
    /\ pc' = "run_code"
    /\ UNCHANGED <<workers, tmp, JDOODLE_ID, JDOODLE_SECRET, calls, received, program,
                   disk, procs, spawned, pending, response>>

\* Executor with python as the default of an unknown language
ExecutorDefaulting(lang) ==
    CASE lang = "c"   -> "execute_c"
      [] lang = "cpp" -> "execute_cpp"
      [] OTHER        -> "execute_python"

\* main.py:387-394: the executor of a language, "" when there is none
Executor(lang) ==
    CASE lang = "python" -> "execute_python"
      [] lang = "c"      -> "execute_c"
      [] lang = "cpp"    -> "execute_cpp"
      [] OTHER           -> ""

\* main.py:371-394: validation, then dispatch
RunCode ==
    /\ pc = "run_code"
    /\ IF DOMAIN request.data = {}
         THEN Respond(400, [error |-> Lit("No JSON body provided", 21)])
       ELSE IF code = << >>
         THEN Respond(400, [error |-> Lit("No code provided", 16)])
       ELSE IF Length(code) > MAX_CODE_LENGTH
         THEN Respond(400, [error |-> Lit("Code too long (max 10000 chars)", 31)])
       ELSE IF Executor(language) # ""
         THEN /\ pc' = Executor(language)
              /\ UNCHANGED response
       ELSE Respond(400, [error |-> Lit("Unsupported language: ", 22)
                                      \o Lit(language, 1)])
    /\ UNCHANGED <<workers, tmp, JDOODLE_ID, JDOODLE_SECRET, request, calls, received, program,
                   disk, procs, spawned, pending>>

\* f.write(code) raises UnicodeEncodeError on a lone surrogate
Encodable(t) == ~Contains(t, Surrogate)

\* main.py:405-407: the temporary file is created (delete=False) and the code
\* written to it.  When creating it raises there is no file; when writing
\* raises the file stays, and the handler at main.py:439 answers.
ExecutePythonWrite ==
    /\ pc = "execute_python"
    /\ \E created \in BOOLEAN, written \in BOOLEAN :
          /\ written => created /\ Encodable(code)
          /\ disk' = IF created THEN disk \cup {temp_file} ELSE disk
          /\ IF written
               THEN pc' = "py_spawn" /\ UNCHANGED response
               ELSE response' = InternalError /\ pc' = "done"
    /\ UNCHANGED <<workers, tmp, JDOODLE_ID, JDOODLE_SECRET, request, calls, received, program,
                   procs, spawned, pending>>

\* main.py:410-416: subprocess.run starts the interpreter, or raises OSError
ExecutePythonSpawn ==
    /\ pc = "py_spawn"
    /\ \/ /\ Spawn("python")
          /\ pc' = "py_wait"
          /\ UNCHANGED pending
       \/ /\ pending' = InternalError
          /\ pc' = "py_finally"
          /\ UNCHANGED <<procs, spawned>>
    /\ UNCHANGED <<workers, tmp, JDOODLE_ID, JDOODLE_SECRET, request, calls, received, program,
                   disk, response>>

\* PythonResult cutting stdout and stderr as one buffer of MAX_OUTPUT_SIZE
PythonResultCombined(returncode, out, err) ==
    [success |-> returncode = 0,
     output |-> Slice(out, MAX_OUTPUT_SIZE),
     error |-> Slice(err, MAX_OUTPUT_SIZE - Length(Slice(out, MAX_OUTPUT_SIZE))),
     exit_code |-> returncode,
     language |-> "python"]

\* main.py:418-427
PythonResult(returncode, out, err) ==
    [success |-> returncode = 0,
     output |-> Slice(out, MAX_OUTPUT_SIZE),
     error |-> Slice(err, MAX_OUTPUT_SIZE),
     exit_code |-> returncode,
     language |-> "python"]

\* main.py:410-427: the interpreter exits within the timeout; decoding its
\* output (text=True) may raise
ExecutePythonExit ==
    /\ pc = "py_wait"
    /\ \E rc \in ReturnCodes, n \in StreamLengths, m \in StreamLengths,
          decoded \in BOOLEAN :
          /\ Ended("exited", rc)
          /\ program' = [outcome |-> IF decoded THEN "exited" ELSE "error", exit |-> rc,
                         stdout |-> n, stderr |-> m]
          /\ pending' = IF decoded
                          THEN [status |-> 200,
                                body |-> PythonResult(rc, Str("stdout", n), Str("stderr", m))]
                          ELSE InternalError
    /\ pc' = "py_finally"
    /\ UNCHANGED <<workers, tmp, JDOODLE_ID, JDOODLE_SECRET, request, calls, received, disk, response>>

\* ExecutePythonTimeout that raises without killing the interpreter
ExecutePythonTimeoutNoKill ==
    /\ pc = "py_wait"
    /\ program' = [outcome |-> "timeout", exit |-> -9]
    /\ pending' = TimeoutError
    /\ pc' = "py_finally"
    /\ UNCHANGED <<workers, tmp, JDOODLE_ID, JDOODLE_SECRET, request, calls, received, disk, response,
                   procs, spawned>>

\* main.py:415, 432-438: the timeout expires; subprocess.run kills the child,
\* waits for it and raises TimeoutExpired
ExecutePythonTimeout ==
    /\ pc = "py_wait"
    /\ Ended("killed", -9)
    /\ program' = [outcome |-> "timeout", exit |-> -9]
    /\ pending' = TimeoutError
    /\ pc' = "py_finally"
    /\ UNCHANGED <<workers, tmp, JDOODLE_ID, JDOODLE_SECRET, request, calls, received, disk, response>>

\* main.py:429-430: finally: os.unlink(temp_file), then the response goes out
ExecutePythonFinally ==
    /\ pc = "py_finally"
    /\ disk' = disk \ {temp_file}
    /\ response' = pending
    /\ pc' = "done"
    /\ UNCHANGED <<workers, tmp, JDOODLE_ID, JDOODLE_SECRET, request, calls, received, program,
                   procs, spawned, pending>>

-----------------------------------------------------------------------------
(* execute_c and execute_cpp: the same steps, with gcc or g++ *)

Compiler == IF language = "c" THEN "gcc" ELSE "g++"

\* main.py:451-456, 513-518: the scratch directory is created, the source file
\* opened in it and the code written.  When creating the directory raises
\* there is nothing on disk; when writing raises, the with statement removes
\* the directory on the way out.
ExecuteCWrite ==
    /\ pc \in {"execute_c", "execute_cpp"}
    /\ \E created \in BOOLEAN, written \in BOOLEAN :
          /\ written => created /\ Encodable(code)
          /\ disk' = disk \cup (IF created THEN {tmpdir, source} ELSE {})
          /\ IF written
               THEN pc' = "cc_compile" /\ UNCHANGED <<pending, response>>
               ELSE IF created
                 THEN pending' = InternalError /\ pc' = "cc_cleanup" /\ UNCHANGED response
                 ELSE response' = InternalError /\ pc' = "done" /\ UNCHANGED pending
    /\ UNCHANGED <<workers, tmp, JDOODLE_ID, JDOODLE_SECRET, request, calls, received, program,
                   procs, spawned>>

\* main.py:459-464, 521-526: subprocess.run starts the compiler, or raises
\* (FileNotFoundError when there is no compiler)
ExecuteCCompileSpawn ==
    /\ pc = "cc_compile"
    /\ \/ /\ Spawn(Compiler)
          /\ pc' = "cc_compiling"
          /\ UNCHANGED pending
       \/ /\ pending' = InternalError
          /\ pc' = "cc_cleanup"
          /\ UNCHANGED <<procs, spawned>>
    /\ UNCHANGED <<workers, tmp, JDOODLE_ID, JDOODLE_SECRET, request, calls, received, program,
                   disk, response>>

\* CompileFailed that misses a compiler killed by a signal
CompileFailedPositive(returncode) == returncode > 0

\* main.py:466, 528: compilation is the gate
CompileFailed(returncode) == returncode # 0

\* main.py:467-474, 529-536
CompileErrorResult(returncode, err) ==
    [success |-> FALSE,
     output |-> << >>,
     error |-> Slice(err, MAX_OUTPUT_SIZE),
     exit_code |-> returncode,
     phase |-> "compilation",
     language |-> language]

\* main.py:459-474: the compiler exits within its timeout.  A compiler that
\* exits 0 has written the binary.  Its diagnostics are text in the encoding
\* the source was written in.
ExecuteCCompileExit ==
    /\ pc = "cc_compiling"
    /\ \E rc \in ReturnCodes, m \in StreamLengths :
          /\ Ended("exited", rc)
          /\ disk' = IF rc = 0 THEN disk \cup {binary} ELSE disk
          /\ IF CompileFailed(rc)
               THEN /\ pending' = [status |-> 200,
                                   body |-> CompileErrorResult(rc, Str("cc.stderr", m))]
                    /\ pc' = "cc_cleanup"
               ELSE /\ pc' = "cc_run"
                    /\ UNCHANGED pending
    /\ UNCHANGED <<workers, tmp, JDOODLE_ID, JDOODLE_SECRET, request, calls, received, program,
                   response>>

\* main.py:463, 494-500: the compile timeout expires; the compiler is killed
ExecuteCCompileTimeout ==
    /\ pc = "cc_compiling"
    /\ Ended("killed", -9)
    /\ pending' = TimeoutError
    /\ pc' = "cc_cleanup"
    /\ UNCHANGED <<workers, tmp, JDOODLE_ID, JDOODLE_SECRET, request, calls, received, program,
                   disk, response>>

\* main.py:477-483, 539-545: subprocess.run starts the binary, or raises
ExecuteCRunSpawn ==
    /\ pc = "cc_run"
    /\ \/ /\ Spawn("program")
          /\ pc' = "cc_running"
          /\ UNCHANGED pending
       \/ /\ pending' = InternalError
          /\ pc' = "cc_cleanup"
          /\ UNCHANGED <<procs, spawned>>
    /\ UNCHANGED <<workers, tmp, JDOODLE_ID, JDOODLE_SECRET, request, calls, received, program,
                   disk, response>>

\* main.py:485-492, 547-554
ExecutionResult(returncode, out, err) ==
    [success |-> returncode = 0,
     output |-> Slice(out, MAX_OUTPUT_SIZE),
     error |-> Slice(err, MAX_OUTPUT_SIZE),
     exit_code |-> returncode,
     phase |-> "execution",
     language |-> language]

\* main.py:477-492: the binary exits within the timeout
ExecuteCRunExit ==
    /\ pc = "cc_running"
    /\ \E rc \in ReturnCodes, n \in StreamLengths, m \in StreamLengths,
          decoded \in BOOLEAN :
          /\ Ended("exited", rc)
          /\ program' = [outcome |-> IF decoded THEN "exited" ELSE "error", exit |-> rc,
                         stdout |-> n, stderr |-> m]
          /\ pending' = IF decoded
                          THEN [status |-> 200,
                                body |-> ExecutionResult(rc, Str("stdout", n), Str("stderr", m))]
                          ELSE InternalError
    /\ pc' = "cc_cleanup"
    /\ UNCHANGED <<workers, tmp, JDOODLE_ID, JDOODLE_SECRET, request, calls, received, disk, response>>

\* main.py:482, 494-500: the run timeout expires; the binary is killed
ExecuteCRunTimeout ==
    /\ pc = "cc_running"
    /\ Ended("killed", -9)
    /\ program' = [outcome |-> "timeout", exit |-> -9]
    /\ pending' = TimeoutError
    /\ pc' = "cc_cleanup"
    /\ UNCHANGED <<workers, tmp, JDOODLE_ID, JDOODLE_SECRET, request, calls, received, disk, response>>

\* main.py:451, 513: leaving the with statement removes the directory and all
\* it holds, then the response goes out
ExecuteCCleanup ==
    /\ pc = "cc_cleanup"
    /\ disk' = disk \ {tmpdir, source, binary}
    /\ response' = pending
    /\ pc' = "done"
    /\ UNCHANGED <<workers, tmp, JDOODLE_ID, JDOODLE_SECRET, request, calls, received, program,
                   procs, spawned, pending>>

-----------------------------------------------------------------------------
(* Concurrent /run requests: each on a worker of its own, in one process,    *)
(* with one temporary directory.  What the workers can share is the file    *)
(* system; this part follows the scratch file (execute_python) or directory *)
(* (execute_c, execute_cpp) of each request through its life.               *)

Workers == 1 .. NumWorkers

\* the names tempfile can give to a scratch file or directory
Names == 1 .. (NumWorkers + SpareNames)

\* the codes of the requests
Codes == {"code.A", "code.B"}

\* workers[w]: position, request, the scratch path it holds (0: none) and
\* the code its interpreter or binary really ran ("" before)
IdleWorker == [pc |-> "idle", language |-> "", code |-> "", path |-> 0, ran |-> ""]

\* tmp[n]: the entry of name n; owner is the worker that created it
NoEntry == [exists |-> FALSE, owner |-> 0, content |-> "", binary |-> ""]

\* a scheme that names the scratch file after the language alone
PredictableNames(w) == {IF workers[w].language = "python" THEN 1 ELSE 2}

\* main.py:405, 451, 513: tempfile draws a random name and creates the entry
\* exclusively (O_EXCL for the file, mkdir for the directory): a name in use
\* is never handed out
FreshNames(w) == {n \in Names : ~tmp[n].exists}

\* the state of the single-request part, untouched here
single == <<JDOODLE_ID, JDOODLE_SECRET, pc, request, calls, received, program,
            disk, procs, spawned, pending, response>>

\* A /run request for python or c arrives on a free worker and is dispatched.
ConcReceive(w) ==
    /\ workers[w].pc \in {"idle", "done"}
    /\ \E l \in {"python", "c"}, c \in Codes :
          workers' = [workers EXCEPT ![w] =
                        [pc |-> "create", language |-> l, code |-> c, path |-> 0, ran |-> ""]]
    /\ UNCHANGED <<tmp, single>>

\* main.py:405, 451: the scratch file or directory is created
ConcCreate(w) ==
    /\ workers[w].pc = "create"
    /\ \E n \in FreshNames(w) :
          /\ tmp' = [tmp EXCEPT ![n] =
                        [exists |-> TRUE, owner |-> w, content |-> "", binary |-> ""]]
          /\ workers' = [workers EXCEPT ![w].path = n, ![w].pc = "write"]
          /\ UNCHANGED single

\* main.py:406, 455-456: the code is written into it
ConcWrite(w) ==
    /\ workers[w].pc = "write"
    /\ tmp' = [tmp EXCEPT ![workers[w].path].content = workers[w].code]
    /\ workers' = [workers EXCEPT ![w].pc =
                      IF workers[w].language = "python" THEN "run" ELSE "compile"]
    /\ UNCHANGED single

\* main.py:459-464: gcc compiles the source of the directory into its binary
ConcCompile(w) ==
    /\ workers[w].pc = "compile"
    /\ tmp' = [tmp EXCEPT ![workers[w].path].binary = tmp[workers[w].path].content]
    /\ workers' = [workers EXCEPT ![w].pc = "run"]
    /\ UNCHANGED single

\* main.py:410-416, 477-483: the interpreter runs the file, or the binary of
\* the directory is run; what runs is what the path holds at that moment
ConcRun(w) ==
    /\ workers[w].pc = "run"
    /\ workers' = [workers EXCEPT
                      ![w].ran = IF ~tmp[workers[w].path].exists THEN "missing"
                                 ELSE IF workers[w].language = "python"
                                   THEN tmp[workers[w].path].content
                                   ELSE tmp[workers[w].path].binary,
                      ![w].pc = "cleanup"]
    /\ UNCHANGED <<tmp, single>>

\* main.py:430, 451: os.unlink(temp_file), or the removal of the directory
ConcCleanup(w) ==
    /\ workers[w].pc = "cleanup"
    /\ tmp' = [tmp EXCEPT ![workers[w].path] = NoEntry]
    /\ workers' = [workers EXCEPT ![w].pc = "done"]
    /\ UNCHANGED single

NextConc ==
    \/ \E w \in Workers : ConcReceive(w)
    \/ \E w \in Workers : ConcCreate(w)
    \/ \E w \in Workers : ConcWrite(w)
    \/ \E w \in Workers : ConcCompile(w)
    \/ \E w \in Workers : ConcRun(w)
    \/ \E w \in Workers : ConcCleanup(w)

-----------------------------------------------------------------------------

Init ==
    /\ JDOODLE_ID \in {"", "client-id"}
    /\ JDOODLE_SECRET \in {"", "client-secret"}
    /\ pc = "idle"
    /\ request = [endpoint |-> "", data |-> << >>]
    /\ calls = << >>
    /\ received = << >>
    /\ program = NotRun
    /\ disk = {}
    /\ procs = {}
    /\ spawned = << >>
    /\ pending = NoResponse
    /\ response = NoResponse
    /\ workers = [w \in Workers |-> IdleWorker]
    /\ tmp = [n \in Names |-> NoEntry]

Next ==
    \/ ReceiveRunCode
    \/ RunHybridCode
    \/ TryPrimary
    \/ TrySecondary
    \/ ReceiveRun
    \/ RunCode
    \/ ExecutePythonWrite
    \/ ExecutePythonSpawn
    \/ ExecutePythonExit
    \/ ExecutePythonTimeout
    \/ ExecutePythonFinally
    \/ ExecuteCWrite
    \/ ExecuteCCompileSpawn
    \/ ExecuteCCompileExit
    \/ ExecuteCCompileTimeout
    \/ ExecuteCRunSpawn
    \/ ExecuteCRunExit
    \/ ExecuteCRunTimeout
    \/ ExecuteCCleanup
    \/ UntrustedForks
    \/ DescendantExits

Spec == Init /\ [][Next]_vars

\* the concurrent /run requests, from the same initial state
SpecConc == Init /\ [][NextConc]_vars

-----------------------------------------------------------------------------
(* Vocabulary of the properties *)

Done == pc = "done"
RunCodeRequest == request.endpoint = "/run-code"
RunRequest == request.endpoint = "/run"

\* the request passed run_hybrid_code's validation
Validated == DOMAIN request.data # {} /\ script # << >>

Srcs(t) == {t[i].src : i \in DOMAIN t}

\* the streams the texts of a response body are made of
BodySrcs(b) == Srcs(Get(b, "output", << >>)) \cup Srcs(Get(b, "error", << >>))

Tag(b) == Get(b, "source", "")

LastReceived == received[Len(received)]

\* the response is the result of one backend, and only of that backend
IsPrimaryResult ==
    /\ response.status = 200
    /\ Tag(response.body) = "JDoodle"
    /\ LastReceived.backend = "JDoodle"
    /\ BodySrcs(response.body) \cap SecondarySrcs = {}

IsSecondaryResult ==
    /\ response.status = 200
    /\ Tag(response.body) = "Piston"
    /\ LastReceived.backend = "Piston"
    /\ BodySrcs(response.body) \cap PrimarySrcs = {}

IsTimeoutError ==
    /\ response.status = 408
    /\ Tag(response.body) = ""
    /\ LastReceived.backend = "Piston"
    /\ LastReceived.outcome.kind = "timeout"
    /\ BodySrcs(response.body) \cap (PrimarySrcs \cup SecondarySrcs) = {}

IsServerError ==
    /\ response.status = 500
    /\ Tag(response.body) = ""
    /\ LastReceived.backend = "Piston"
    /\ LastReceived.outcome.kind # "timeout"
    /\ BodySrcs(response.body) \cap (PrimarySrcs \cup SecondarySrcs) = {}

-----------------------------------------------------------------------------
(* C1 *)

\* C1 as stated: every validated /run-code request is answered with the
\* primary backend's result, the secondary backend's result or a timeout
\* error, and nothing else.
C1_OneBackendOrTimeout ==
    (Done /\ RunCodeRequest /\ Validated) =>
        IsPrimaryResult \/ IsSecondaryResult \/ IsTimeoutError

\* C1 amended: every validated /run-code request is answered with exactly one
\* of: the primary backend's result, the secondary backend's result, a timeout
\* error (408) when the secondary call timed out, or a server error (500) when
\* the secondary call failed otherwise; the texts returned never hold content
\* of both backends.
C1_OneBackendOrError ==
    (Done /\ RunCodeRequest /\ Validated) =>
        /\ IsPrimaryResult \/ IsSecondaryResult \/ IsTimeoutError \/ IsServerError
        /\ ~ /\ BodySrcs(response.body) \cap PrimarySrcs # {}
             /\ BodySrcs(response.body) \cap SecondarySrcs # {}

\* both backends gave content and the answer is the secondary's alone
C1_Witness ==
    /\ Done /\ RunCodeRequest /\ Len(received) = 2
    /\ received[1].outcome.kind = "json"
    /\ Contains(Get(received[1].outcome.result, "output", << >>), "jdoodle.output")
    /\ IsSecondaryResult
    /\ BodySrcs(response.body) \cap SecondarySrcs # {}


-----------------------------------------------------------------------------
(* C2 *)

\* the first call went to JDoodle
PrimaryCalled == received # << >> /\ received[1].backend = "JDoodle"

PrimaryOutcome == received[1].outcome

\* the primary's response carries an output holding the quota marker
QuotaSeen ==
    /\ PrimaryCalled
    /\ PrimaryOutcome.kind = "json"
    /\ "output" \in DOMAIN PrimaryOutcome.result
    /\ Contains(PrimaryOutcome.result.output, QuotaMarker)

\* the secondary's response is a JSON object the orchestrator can read
SecondaryReadable(o) ==
    /\ o.kind = "json"
    /\ "run" \in DOMAIN o.result => {"stdout", "stderr"} \subseteq DOMAIN o.result.run

\* C2 as stated: once the primary's output holds the quota marker, the final
\* result is tagged "Piston", whatever the secondary backend does.
C2_QuotaTaggedPiston ==
    (Done /\ QuotaSeen) => Tag(response.body) = "Piston"

\* C2 amended: once the primary's output holds the quota marker, the secondary
\* backend is called and the final result is never tagged "JDoodle"; it is
\* tagged "Piston" when the secondary returns a readable JSON response, and
\* carries no source tag when the secondary call times out or raises.
C2_QuotaNeverTaggedJDoodle ==
    QuotaSeen =>
        /\ pc \in {"TrySecondary", "done"}
        /\ Done =>
              /\ Len(received) = 2
              /\ received[2].backend = "Piston"
              /\ Tag(response.body) # "JDoodle"
              /\ IF SecondaryReadable(received[2].outcome)
                   THEN Tag(response.body) = "Piston"
                   ELSE "source" \notin DOMAIN response.body

C2_Witness ==
    /\ Done /\ QuotaSeen
    /\ PrimaryOutcome.status_code = 200
    /\ Tag(response.body) = "Piston"

-----------------------------------------------------------------------------
(* C3 *)

PrimaryRaised == PrimaryOutcome.kind \in {"raise", "badjson"}

PrimaryLacksOutput ==
    PrimaryOutcome.kind = "json" /\ "output" \notin DOMAIN PrimaryOutcome.result

\* the orchestrator went on to the secondary backend
Proceeded == pc = "TrySecondary" \/ Len(calls) = 2

\* the primary's response was returned at once, with no call to the secondary
ReturnedPrimary ==
    /\ Done
    /\ response.status = 200
    /\ Tag(response.body) = "JDoodle"
    /\ Len(calls) = 1

\* C3 as stated: after the primary call the orchestrator proceeds to the
\* secondary iff the call raised, the response lacks "output", or the output
\* holds the quota marker; otherwise the response is returned at once.
C3_FallThroughIff ==
    PrimaryCalled =>
        /\ Proceeded <=> (PrimaryRaised \/ PrimaryLacksOutput \/ QuotaSeen)
        /\ ~Proceeded => ReturnedPrimary

\* C3 amended: the orchestrator proceeds to the secondary iff the primary
\* attempt raised (the HTTP call or the parsing of its body), or the HTTP
\* status is not 200, or the response lacks "output", or the output holds the
\* quota marker; every other primary response is returned at once, tagged
\* "JDoodle", with no call to the secondary.
C3_FallThroughIffWithStatus ==
    PrimaryCalled =>
        /\ Proceeded <=>
              \/ PrimaryRaised
              \/ PrimaryOutcome.status_code # 200
              \/ PrimaryLacksOutput
              \/ QuotaSeen
        /\ ~Proceeded => ReturnedPrimary

\* a primary response with an output, no marker and a status other than 200
\* has sent the orchestrator to the secondary
C3_Witness ==
    /\ PrimaryCalled
    /\ pc = "TrySecondary"
    /\ PrimaryOutcome.kind = "json"
    /\ PrimaryOutcome.status_code # 200
    /\ "output" \in DOMAIN PrimaryOutcome.result
    /\ ~QuotaSeen


-----------------------------------------------------------------------------
(* C4 *)

\* C4: once a local execution has returned, no scratch file or directory of
\* the request is left on disk, whatever the exit path.
C4_NoScratchLeft ==
    (Done /\ RunRequest) => disk = {}

-----------------------------------------------------------------------------
(* C5 *)

CompiledRequest == RunRequest /\ language \in {"c", "cpp"}

\* the compiler was started and has exited
CompilerExited ==
    /\ spawned # << >>
    /\ spawned[1].cmd \in {"gcc", "g++"}
    /\ spawned[1].end = "exited"

\* the response computed so far: sent, or waiting for the cleanup
Result == IF Done THEN response ELSE pending

\* C5: compilation is a gate.  A compiler that exits nonzero gives, at once,
\* success=false, phase="compilation", output="" and the compiler's exit code,
\* and the binary is never started; the binary is started, and a result of
\* phase "execution" produced, only after a compile that exited 0.
C5_CompileGate ==
    CompiledRequest =>
        /\ (CompilerExited /\ spawned[1].returncode # 0) =>
              /\ Len(spawned) = 1
              /\ pc \in {"cc_cleanup", "done"}
              /\ Result.status = 200
              /\ Result.body.success = FALSE
              /\ Result.body.phase = "compilation"
              /\ Result.body.output = << >>
              /\ Result.body.exit_code = spawned[1].returncode
        /\ (Len(spawned) >= 2 \/ Get(Result.body, "phase", "") = "execution") =>
              /\ CompilerExited
              /\ spawned[1].returncode = 0
              /\ Len(spawned) = 2
              /\ spawned[2].cmd = "program"

\* a compiler killed by a signal (exit code -1) has stopped the request
C5_Witness ==
    /\ CompiledRequest /\ Done
    /\ CompilerExited /\ spawned[1].returncode < 0
    /\ response.body.phase = "compilation"

-----------------------------------------------------------------------------
(* C6 *)

\* a child process of the request was killed on the expiry of its timeout
TimedOut == \E i \in DOMAIN spawned : spawned[i].end = "killed"

IsTimeoutMessage(t) ==
    /\ Len(t) = 1
    /\ t[1].src = "Execution timeout (%ss limit exceeded)"

\* C6: on /run a timeout of the compile phase or of the run phase always gives
\* 408 with success=false, exit_code=-1 and the timeout message, and a request
\* none of whose processes timed out is never answered 408: a timeout is never
\* reported as a runtime error, nor a runtime error as a timeout.
C6_TimeoutDistinct ==
    (Done /\ RunRequest) =>
        /\ TimedOut =>
              /\ response.status = 408
              /\ response.body.success = FALSE
              /\ response.body.exit_code = -1
              /\ IsTimeoutMessage(response.body.error)
        /\ ~TimedOut => response.status # 408

\* the compiler timed out, and the answer is the timeout
C6_Witness ==
    /\ Done /\ RunRequest
    /\ spawned # << >> /\ spawned[1].cmd = "g++" /\ spawned[1].end = "killed"
    /\ response.status = 408

-----------------------------------------------------------------------------
(* C7 *)

\* C7: in every result of either endpoint, success is true iff the executed
\* program exited with code 0 and there was no timeout and no internal error.
C7_SuccessIffExitZero ==
    Done =>
        (Get(response.body, "success", FALSE)
            <=> (program.outcome = "exited" /\ program.exit = 0))

-----------------------------------------------------------------------------
(* C8 *)

\* the validation errors of /run, on the request as it arrived
InvalidRun ==
    \/ DOMAIN request.data = {}
    \/ code = << >>
    \/ Length(code) > MAX_CODE_LENGTH
    \/ language \notin {"python", "c", "cpp"}

\* C8: on /run every validation error (no or empty code, code longer than
\* 10,000 characters, language not python, c or cpp) is answered 400 before
\* any dispatch: no scratch file or directory is created and no process is
\* started, so an unknown language is never run as another one.
C8_ValidationBeforeDispatch ==
    (RunRequest /\ InvalidRun /\ pc # "run_code") =>
        /\ Done
        /\ response.status = 400
        /\ disk = {}
        /\ spawned = << >>
        /\ procs = {}

\* a code of one character above the limit, in a supported language, refused
C8_Witness ==
    /\ Done /\ RunRequest
    /\ Length(code) = MAX_CODE_LENGTH + 1
    /\ language = "python"
    /\ response.status = 400

-----------------------------------------------------------------------------
(* C9 *)

CredentialsUsable == JDOODLE_ID # "" /\ JDOODLE_SECRET # ""

\* C9: JDoodle is called only when both the client id and the secret are
\* non-empty; otherwise the first and only backend call is to Piston.
C9_PrimaryOnlyWithCredentials ==
    /\ \A i \in DOMAIN calls : calls[i].backend = "JDoodle" => CredentialsUsable
    /\ ~CredentialsUsable =>
          /\ Len(calls) <= 1
          /\ \A i \in DOMAIN calls : calls[i].backend = "Piston"
          /\ (Done /\ RunCodeRequest /\ Validated) => Len(calls) = 1

\* an id without a secret: the only call went to Piston
C9_Witness ==
    /\ Done /\ RunCodeRequest
    /\ JDOODLE_ID # "" /\ JDOODLE_SECRET = ""
    /\ Len(calls) = 1 /\ calls[1].backend = "Piston"

-----------------------------------------------------------------------------
(* C10 *)

SecondaryCalled == received # << >> /\ LastReceived.backend = "Piston"

-----------------------------------------------------------------------------
(* C11 *)

\* C11: when a compile or run step times out, the child and every descendant
\* it started are dead before the executor returns; no process started for a
\* request is alive once the response of the request is produced.
C11_NoProcessOutlivesRequest ==
    (Done /\ RunRequest) => procs = {}


-----------------------------------------------------------------------------
(* C12 *)

\* the response is not a success: success is false, or the status is 4xx/5xx
NonSuccess ==
    \/ ~Get(response.body, "success", TRUE)
    \/ response.status >= 400

\* C12: every non-success response of /run and /run-code carries a non-empty
\* error field, also when the program exits nonzero with nothing on stderr
\* and when the compiler fails without diagnostics.
C12_ErrorPopulated ==
    (Done /\ NonSuccess) => Get(response.body, "error", << >>) # << >>

-----------------------------------------------------------------------------
(* C13 *)

Min(a, b) == IF a <= b THEN a ELSE b

\* the text is exactly the first n characters of the stream src
IsPrefixOf(t, src, n) ==
    IF n = 0 THEN t = << >>
    ELSE Len(t) = 1 /\ t[1].src = src /\ t[1].len = n

\* the request ran its program to the end and returned what it captured
Captured ==
    /\ Done /\ RunRequest
    /\ program.outcome = "exited"

\* C13: on /run, for a program that ran to its end, the output returned is
\* the first min(len(stdout), cap) characters of stdout and the error returned
\* the first min(len(stderr), cap) characters of stderr, each cut on its own.
C13_IndependentTruncation ==
    Captured =>
        /\ response.status = 200
        /\ IsPrefixOf(response.body.output, "stdout", Min(program.stdout, MAX_OUTPUT_SIZE))
        /\ IsPrefixOf(response.body.error, "stderr", Min(program.stderr, MAX_OUTPUT_SIZE))

\* a stdout above the cap is cut to the cap and a short stderr is kept whole
C13_Witness ==
    /\ Captured
    /\ program.stdout > MAX_OUTPUT_SIZE
    /\ program.stderr = 1
    /\ Length(response.body.output) = MAX_OUTPUT_SIZE
    /\ Length(response.body.error) = 1

-----------------------------------------------------------------------------
(* C14 *)

\* C14: no response of /run or /run-code carries an output or an error longer
\* than the cap, whichever backend produced it.
C14_CapOnBothEndpoints ==
    Done =>
        /\ Length(Get(response.body, "output", << >>)) <= MAX_OUTPUT_SIZE
        /\ Length(Get(response.body, "error", << >>)) <= MAX_OUTPUT_SIZE

-----------------------------------------------------------------------------
(* C15 *)

\* the language identifier the call to a backend carried
Sent(backend) ==
    {calls[i].language : i \in {j \in DOMAIN calls : calls[j].backend = backend}}

\* C15 as stated: each backend is sent the mapped identifier of a language of
\* its table, and the identifier of the request unchanged otherwise.
C15_UnmappedUnchanged ==
    /\ Sent("JDoodle") \subseteq
          {IF language \in DOMAIN jdoodle_map THEN jdoodle_map[language] ELSE language}
    /\ Sent("Piston") \subseteq
          {IF language \in DOMAIN piston_map THEN piston_map[language] ELSE language}

\* C15 amended: each backend is sent the mapped identifier of a language of
\* its table; for a language that is not in the table JDoodle is sent
\* "python3" and Piston "python", whatever the request named.
C15_UnmappedIsPython ==
    /\ language = "python" => Sent("JDoodle") \subseteq {"python3"}
                               /\ Sent("Piston") \subseteq {"python"}
    /\ language = "cpp" => Sent("JDoodle") \subseteq {"cpp17"}
                            /\ Sent("Piston") \subseteq {"c++"}
    /\ language = "js" => Sent("JDoodle") \subseteq {"nodejs"}
                           /\ Sent("Piston") \subseteq {"javascript"}
    /\ language \notin DOMAIN jdoodle_map => Sent("JDoodle") \subseteq {"python3"}
    /\ language \notin DOMAIN piston_map => Sent("Piston") \subseteq {"python"}

\* a request in a language of neither table reached both backends as Python
C15_Witness ==
    /\ RunCodeRequest
    /\ language = "ruby"
    /\ Sent("JDoodle") = {"python3"}
    /\ Sent("Piston") = {"python"}

-----------------------------------------------------------------------------
(* C17 *)

\* the commands that run the user's code
Untrusted == {"python", "program"}

\* C17: every process that runs untrusted code is started through the
\* resource limiter, so that it never runs unconfined.
C17_UntrustedLimited ==
    \A i \in DOMAIN spawned :
        spawned[i].cmd \in Untrusted => spawned[i].preexec_fn = "set_limits"


-----------------------------------------------------------------------------
(* C18 *)

\* what holds of the backend calls of a request at every moment
CallsInOrder ==
    /\ Len(calls) <= 2
    /\ \A i, j \in DOMAIN calls : calls[i].backend = calls[j].backend => i = j
    /\ \A i \in DOMAIN calls : calls[i].backend = "JDoodle" => i = 1
    /\ (RunCodeRequest /\ ~Validated) => calls = << >>

\* C18: a /run-code request makes at most two backend calls, at most one to
\* each backend, and none to the secondary before the primary; a request that
\* validation rejects makes none; once the response is returned, no further
\* call is made.
C18_AtMostOneCallPerBackend ==
    /\ []CallsInOrder
    /\ [][Done => calls' = calls]_vars

\* the primary fell through and the secondary answered: two calls, in order
C18_Witness ==
    /\ Done /\ RunCodeRequest
    /\ Len(calls) = 2
    /\ calls[1].backend = "JDoodle" /\ calls[2].backend = "Piston"

-----------------------------------------------------------------------------
(* C19 *)

\* a child started by subprocess.run for the request is still running
ChildRunning ==
    \/ \E i \in DOMAIN spawned : spawned[i].end = "running"
    \/ procs \cap {"python", "gcc", "g++", "program"} # {}

\* C19: in every local executor a scratch file or directory is removed only
\* once every child started for the request (compiler, interpreter, binary)
\* has exited or been killed and reaped, on the timeout path as on the others.
C19_CleanupAfterReap ==
    [][(disk \ disk' # {}) => ~ChildRunning]_vars

\* the binary was killed on timeout, and the scratch directory is gone
C19_Witness ==
    /\ Done /\ RunRequest
    /\ Len(spawned) = 2 /\ spawned[2].end = "killed"
    /\ disk = {}


-----------------------------------------------------------------------------
(* C16 *)

\* the worker holds a scratch file or directory
Holding(w) == workers[w].pc \in {"write", "compile", "run", "cleanup"}

\* C16: concurrent /run requests share no mutable state.  Each execution
\* holds a scratch file or directory that it alone owns; none is read,
\* overwritten or deleted by another execution; and each request runs its own
\* code, as it would alone.
C16_ExclusiveScratch ==
    /\ \A w \in Workers : Holding(w) =>
          /\ tmp[workers[w].path].exists
          /\ tmp[workers[w].path].owner = w
          /\ tmp[workers[w].path].content \in {"", workers[w].code}
          /\ tmp[workers[w].path].binary \in {"", workers[w].code}
    /\ \A v, w \in Workers :
          (v # w /\ Holding(v) /\ Holding(w)) => workers[v].path # workers[w].path
    /\ \A w \in Workers : workers[w].ran \in {"", workers[w].code}

\* two requests of the same language with different codes in flight at once,
\* one of them already run
C16_Witness ==
    \E v, w \in Workers :
        /\ v # w
        /\ workers[v].language = workers[w].language
        /\ workers[v].code # workers[w].code
        /\ workers[v].pc = "cleanup" /\ workers[v].ran = workers[v].code
        /\ workers[w].pc = "run"

=============================================================================
